---- MODULE Spec2Model ----
(***************************************************************************)
(* Model of tokio-mock-io (src/src/lib.rs): a Mock implementing AsyncRead  *)
(* and AsyncWrite, driven by a Handle through an unbounded action channel, *)
(* and reporting consumed actions on an unbounded event channel.           *)
(***************************************************************************)
EXTENDS Integers, Sequences, FiniteSets, TLC

\* ------------------------------------------------------------------ bounds
\* number of actions the Handle queues in one run
MaxActions == 2

\* ------------------------------------------------------------------ inputs
\* byte slices the test passes to Handle::read / Handle::write and the
\* component under test passes to poll_write
Slices == {<<0, 1>>, <<1, 0>>}
\* std::io::ErrorKind values the test injects
ErrorKind == {"ConnectionReset", "BrokenPipe"}
\* ReadBuf values the component under test passes to poll_read:
\* filled is the initialized-and-filled part, remaining the free capacity
ReadBufs == [filled : {<<1>>}, remaining : {1, 2, 3}]

\* ------------------------------------------------------------- data model
\* Option<T>: None, Some(x)
None == <<>>
Some(x) == <<x>>

\* enum Direction
Direction == {"Read", "Write"}

\* enum ActionType { Data(Vec<u8>), Error(ErrorKind) }
Data(bytes) == [tag |-> "Data", bytes |-> bytes, kind |-> "-"]
Error(kind) == [tag |-> "Error", bytes |-> <<>>, kind |-> kind]

\* struct Action { direction, action_type }; id is the position of the action
\* in the order the Handle sent it (history only, no method reads it)
Action(dir, at, id) == [direction |-> dir, action_type |-> at, id |-> id]

\* enum Event { Write(usize), Read(usize), WriteErr(ErrorKind), ReadErr(ErrorKind) }
Event(tag, len, kind) == [tag |-> tag, len |-> len, kind |-> kind]

\* Action::get_event
get_event(x) ==
    IF x.direction = "Read"
    THEN IF x.action_type.tag = "Data"
         THEN Event("Read", Len(x.action_type.bytes), "-")
         ELSE Event("ReadErr", 0, x.action_type.kind)
    ELSE IF x.action_type.tag = "Data"
         THEN Event("Write", Len(x.action_type.bytes), "-")
         ELSE Event("WriteErr", 0, x.action_type.kind)

\* ------------------------------------------------------------------ state
VARIABLES
    next,         \* Mock.next: Option<Action>, the lookahead slot
    rx,           \* action channel (Handle.tx -> Mock.rx): actions in flight
    tx,           \* event channel (Mock.tx -> Handle.rx): events in flight
    rx_waker,     \* TRUE iff poll_recv left the task's waker in the action channel
    woken,        \* TRUE iff that waker was woken and the task has not polled since
    handleAlive,  \* the Handle has not been dropped
    mockAlive,    \* the Mock has not been dropped
    pc,           \* position of the task driving the Mock
    popped,       \* what pop returned to the running poll_read / poll_write
    dir0,         \* history: the direction pop was last called with, or "-"
    alive0,       \* history: handleAlive when pop was last called
    next0,        \* history: Mock.next when pop was last called
    rx0,          \* history: the action channel when pop was last called
    rbuf0,        \* the ReadBuf as passed to the last poll_read
    rbuf,         \* the same ReadBuf now
    wbuf,         \* the slice passed to the last poll_write
    ret,          \* what the last poll_* call returned
    fatal,        \* the panic that ended the test, or "none"
    sent,         \* history: the actions the Handle sent, in order
    matched,      \* history: the actions pop_event returned as matched, in order
    received      \* history: the events next_event returned, in order

vars == <<next, rx, tx, rx_waker, woken, handleAlive, mockAlive, pc, popped,
          dir0, alive0, next0, rx0, rbuf0, rbuf, wbuf, ret, fatal, sent, matched, received>>

NoBuf == [filled |-> <<>>, remaining |-> 0]
NoRet == [op |-> "none", poll |-> "-", res |-> "-", n |-> 0, kind |-> "-"]
Ret(op, poll, res, n, kind) ==
    [op |-> op, poll |-> poll, res |-> res, n |-> n, kind |-> kind]

\* fn mock() -> (Mock, Handle)
Init ==
    /\ next = None
    /\ rx = <<>>
    /\ tx = <<>>
    /\ rx_waker = FALSE
    /\ woken = FALSE
    /\ handleAlive = TRUE
    /\ mockAlive = TRUE
    /\ pc = "idle"
    /\ popped = None
    /\ dir0 = "-"
    /\ alive0 = TRUE
    /\ next0 = None
    /\ rx0 = <<>>
    /\ rbuf0 = NoBuf
    /\ rbuf = NoBuf
    /\ wbuf = <<>>
    /\ ret = NoRet
    /\ fatal = "none"
    /\ sent = <<>>
    /\ matched = <<>>
    /\ received = <<>>

\* ------------------------------------------------------------ Mock engine
\* The part of the state pop and pop_event work on; out is the Option<ActionType>
\* they return, panic the panic they raise.
MockState ==
    [next |-> next, rx |-> rx, tx |-> tx, rx_waker |-> rx_waker,
     matched |-> matched, out |-> None, panic |-> "none"]

\* fault variant of pop_event: the event is sent for every action looked at,
\* also for one of the other direction that is only stored
pop_event_always_sends(dir, x, m) ==
    IF ~handleAlive
    THEN [m EXCEPT !.panic = "event_send_failed"]
    ELSE IF x.direction = dir
         THEN [m EXCEPT !.tx = Append(@, get_event(x)),
                        !.matched = Append(@, x),
                        !.out = Some(x.action_type)]
         ELSE [m EXCEPT !.tx = Append(@, get_event(x)),
                        !.next = Some(x), !.out = None]

\* fault variant of pop_event: an action of the other direction is discarded
\* instead of being stored in self.next
pop_event_drops(dir, x, m) ==
    IF x.direction = dir
    THEN IF handleAlive
         THEN [m EXCEPT !.tx = Append(@, get_event(x)),
                        !.matched = Append(@, x),
                        !.out = Some(x.action_type)]
         ELSE [m EXCEPT !.panic = "event_send_failed"]
    ELSE [m EXCEPT !.out = None]

\* fault variant of pop_event: the event of a data action is not sent here but
\* left to the caller, to be sent after the payload has been checked
pop_event_defers_event(dir, x, m) ==
    IF x.direction = dir
    THEN IF handleAlive
         THEN [m EXCEPT !.tx = IF x.action_type.tag = "Data"
                                THEN @ ELSE Append(@, get_event(x)),
                        !.matched = Append(@, x),
                        !.out = Some(x.action_type)]
         ELSE [m EXCEPT !.panic = "event_send_failed"]
    ELSE [m EXCEPT !.next = Some(x), !.out = None]

\* Mock::pop_event
pop_event(dir, x, m) ==
    IF x.direction = dir
    THEN IF handleAlive
         THEN [m EXCEPT !.tx = Append(@, get_event(x)),
                        !.matched = Append(@, x),
                        !.out = Some(x.action_type)]
         ELSE \* UnboundedSender::send fails once the receiver is gone; unwrap()
              [m EXCEPT !.panic = "event_send_failed"]
    ELSE [m EXCEPT !.next = Some(x), !.out = None]

\* fault variant of pop: the channel is polled before self.next is looked at
pop_channel_first(dir, m) ==
    IF m.rx # <<>>
    THEN pop_event(dir, Head(m.rx), [m EXCEPT !.rx = Tail(@)])
    ELSE IF m.next # None
         THEN pop_event(dir, m.next[1], [m EXCEPT !.next = None])
         ELSE IF ~handleAlive
              THEN [m EXCEPT !.panic = "channel_closed"]
              ELSE [m EXCEPT !.rx_waker = TRUE, !.out = None]

\* fault variant of pop: a stored action of the other direction is passed over
\* and the channel is polled for one of the requested direction
pop_past_slot(dir, m) ==
    IF m.next # None /\ m.next[1].direction = dir
    THEN pop_event(dir, m.next[1], [m EXCEPT !.next = None])
    ELSE IF m.rx # <<>>
         THEN IF Head(m.rx).direction = dir \/ m.next = None
              THEN pop_event(dir, Head(m.rx), [m EXCEPT !.rx = Tail(@)])
              ELSE [m EXCEPT !.out = None]
         ELSE IF ~handleAlive
              THEN [m EXCEPT !.panic = "channel_closed"]
              ELSE [m EXCEPT !.rx_waker = TRUE, !.out = None]

\* fault variant of pop: a closed and empty channel counts as "nothing yet"
pop_ignores_close(dir, m) ==
    IF m.next # None
    THEN pop_event(dir, m.next[1], [m EXCEPT !.next = None])
    ELSE IF m.rx # <<>>
         THEN pop_event(dir, Head(m.rx), [m EXCEPT !.rx = Tail(@)])
         ELSE [m EXCEPT !.rx_waker = handleAlive, !.out = None]

\* Mock::pop
pop(dir, m) ==
    IF m.next # None
    THEN pop_event(dir, m.next[1], [m EXCEPT !.next = None])
    ELSE IF m.rx # <<>>
         THEN pop_event(dir, Head(m.rx), [m EXCEPT !.rx = Tail(@)])
         ELSE IF ~handleAlive
              THEN [m EXCEPT !.panic = "channel_closed"]
              ELSE [m EXCEPT !.rx_waker = TRUE, !.out = None]

\* fault variant of put_slice: only the first byte of the slice is copied
put_slice_first(buf, bytes) ==
    [filled |-> buf.filled \o SubSeq(bytes, 1, 1), remaining |-> buf.remaining - 1]

\* ReadBuf::put_slice
put_slice(buf, bytes) ==
    [filled |-> buf.filled \o bytes, remaining |-> buf.remaining - Len(bytes)]

\* the call of self.pop(dir, cx) that opens poll_read and poll_write
CallPop(dir, who) ==
    LET m == pop(dir, MockState) IN
    /\ next' = m.next
    /\ rx' = m.rx
    /\ tx' = m.tx
    /\ rx_waker' = m.rx_waker
    /\ matched' = m.matched
    /\ popped' = m.out
    /\ dir0' = dir
    /\ alive0' = handleAlive
    /\ next0' = next
    /\ woken' = FALSE
    /\ rx0' = rx
    /\ ret' = NoRet
    /\ IF m.panic = "none"
       THEN pc' = who /\ fatal' = fatal
       ELSE pc' = "idle" /\ fatal' = m.panic

Running == mockAlive /\ fatal = "none"

\* what a match arm of poll_read / poll_write leaves: the caller's ReadBuf,
\* the value returned, the panic raised
Outcome(buf, r, panic) == [buf |-> buf, ret |-> r, panic |-> panic]

\* <Mock as AsyncRead>::poll_read, up to the return of pop
PollReadPop ==
    /\ Running /\ pc = "idle"
    /\ \E buf \in ReadBufs : rbuf0' = buf /\ rbuf' = buf
    /\ wbuf' = <<>>
    /\ CallPop("Read", "poll_read")
    /\ UNCHANGED <<handleAlive, mockAlive, sent, received>>

\* fault variant of read_match: no action yields an ordinary WouldBlock error
\* instead of Poll::Pending
read_match_would_block(p, buf) ==
    IF p = None
    THEN Outcome(buf, Ret("poll_read", "Ready", "Err", 0, "WouldBlock"), "none")
    ELSE IF p[1].tag = "Data"
         THEN IF buf.remaining < Len(p[1].bytes)
              THEN Outcome(buf, NoRet, "read_capacity")
              ELSE Outcome(put_slice(buf, p[1].bytes),
                           Ret("poll_read", "Ready", "Ok", 0, "-"), "none")
         ELSE Outcome(buf, Ret("poll_read", "Ready", "Err", 0, p[1].kind), "none")

\* fault variant of read_match: a scripted error is raised as a panic instead
\* of being returned
read_match_error_panics(p, buf) ==
    IF p = None
    THEN Outcome(buf, Ret("poll_read", "Pending", "-", 0, "-"), "none")
    ELSE IF p[1].tag = "Data"
         THEN IF buf.remaining < Len(p[1].bytes)
              THEN Outcome(buf, NoRet, "read_capacity")
              ELSE Outcome(put_slice(buf, p[1].bytes),
                           Ret("poll_read", "Ready", "Ok", 0, "-"), "none")
         ELSE Outcome(buf, NoRet, "scripted_error")

\* <Mock as AsyncRead>::poll_read, the match on what pop returned (p), with
\* the caller's ReadBuf buf
read_match(p, buf) ==
    IF p = None
    THEN Outcome(buf, Ret("poll_read", "Pending", "-", 0, "-"), "none")
    ELSE IF p[1].tag = "Data"
         THEN IF buf.remaining < Len(p[1].bytes)
              THEN Outcome(buf, NoRet, "read_capacity")
              ELSE Outcome(put_slice(buf, p[1].bytes),
                           Ret("poll_read", "Ready", "Ok", 0, "-"), "none")
         ELSE Outcome(buf, Ret("poll_read", "Ready", "Err", 0, p[1].kind), "none")

\* <Mock as AsyncRead>::poll_read, from the return of pop to its own return
PollReadMatch ==
    /\ Running /\ pc = "poll_read"
    /\ LET o == read_match(popped, rbuf) IN
       /\ rbuf' = o.buf
       /\ ret' = o.ret
       /\ fatal' = o.panic
    /\ pc' = "idle"
    /\ popped' = None
    /\ UNCHANGED <<next, rx, tx, rx_waker, woken, handleAlive, mockAlive, dir0, alive0, next0, rx0,
                   rbuf0, wbuf, sent, matched, received>>

\* <Mock as AsyncWrite>::poll_write, up to the return of pop
PollWritePop ==
    /\ Running /\ pc = "idle"
    /\ \E buf \in Slices : wbuf' = buf
    /\ rbuf0' = NoBuf /\ rbuf' = NoBuf
    /\ CallPop("Write", "poll_write")
    /\ UNCHANGED <<handleAlive, mockAlive, sent, received>>

\* fault variant of write_match: no action yields Poll::Pending, as in
\* poll_read, instead of the panic
write_match_pending(p, buf) ==
    IF p = None
    THEN Outcome(NoBuf, Ret("poll_write", "Pending", "-", 0, "-"), "none")
    ELSE IF p[1].tag = "Data"
         THEN IF p[1].bytes # buf
              THEN Outcome(NoBuf, NoRet, "write_mismatch")
              ELSE Outcome(NoBuf, Ret("poll_write", "Ready", "Ok", Len(buf), "-"), "none")
         ELSE Outcome(NoBuf, Ret("poll_write", "Ready", "Err", 0, p[1].kind), "none")

\* fault variant of write_match: the scripted bytes and the written bytes are
\* compared by length only
write_match_len_only(p, buf) ==
    IF p = None
    THEN Outcome(NoBuf, NoRet, "unexpected_write")
    ELSE IF p[1].tag = "Data"
         THEN IF Len(p[1].bytes) # Len(buf)
              THEN Outcome(NoBuf, NoRet, "write_mismatch")
              ELSE Outcome(NoBuf, Ret("poll_write", "Ready", "Ok", Len(buf), "-"), "none")
         ELSE Outcome(NoBuf, Ret("poll_write", "Ready", "Err", 0, p[1].kind), "none")

\* fault variant of write_match: a byte mismatch is returned to the caller as
\* an io::Error instead of the panic
write_match_mismatch_err(p, buf) ==
    IF p = None
    THEN Outcome(NoBuf, NoRet, "unexpected_write")
    ELSE IF p[1].tag = "Data"
         THEN IF p[1].bytes # buf
              THEN Outcome(NoBuf, Ret("poll_write", "Ready", "Err", 0, "InvalidData"), "none")
              ELSE Outcome(NoBuf, Ret("poll_write", "Ready", "Ok", Len(buf), "-"), "none")
         ELSE Outcome(NoBuf, Ret("poll_write", "Ready", "Err", 0, p[1].kind), "none")

\* <Mock as AsyncWrite>::poll_write, the match on what pop returned (p), with
\* the caller's slice buf
write_match(p, buf) ==
    IF p = None
    THEN Outcome(NoBuf, NoRet, "unexpected_write")
    ELSE IF p[1].tag = "Data"
         THEN IF p[1].bytes # buf
              THEN Outcome(NoBuf, NoRet, "write_mismatch")
              ELSE Outcome(NoBuf, Ret("poll_write", "Ready", "Ok", Len(buf), "-"), "none")
         ELSE Outcome(NoBuf, Ret("poll_write", "Ready", "Err", 0, p[1].kind), "none")

\* <Mock as AsyncWrite>::poll_write, from the return of pop to its own return
PollWriteMatch ==
    /\ Running /\ pc = "poll_write"
    /\ LET o == write_match(popped, wbuf) IN
       /\ ret' = o.ret
       /\ fatal' = o.panic
    /\ pc' = "idle"
    /\ popped' = None
    /\ UNCHANGED <<next, rx, tx, rx_waker, woken, handleAlive, mockAlive, dir0, alive0, next0, rx0,
                   rbuf0, rbuf, wbuf, sent, matched, received>>

\* fault variant of poll_flush: flushing throws the stored action away
PollFlush_drains ==
    /\ Running /\ pc = "idle"
    /\ ret' = Ret("poll_flush", "Ready", "Ok", 0, "-")
    /\ next' = None
    /\ UNCHANGED <<rx, tx, rx_waker, woken, handleAlive, mockAlive, pc, popped,
                   dir0, alive0, next0, rx0, rbuf0, rbuf, wbuf, fatal, sent, matched, received>>

\* <Mock as AsyncWrite>::poll_flush
PollFlush ==
    /\ Running /\ pc = "idle"
    /\ ret' = Ret("poll_flush", "Ready", "Ok", 0, "-")
    /\ UNCHANGED <<next, rx, tx, rx_waker, woken, handleAlive, mockAlive, pc, popped,
                   dir0, alive0, next0, rx0, rbuf0, rbuf, wbuf, fatal, sent, matched, received>>

\* <Mock as AsyncWrite>::poll_shutdown
PollShutdown ==
    /\ Running /\ pc = "idle"
    /\ ret' = Ret("poll_shutdown", "Ready", "Ok", 0, "-")
    /\ UNCHANGED <<next, rx, tx, rx_waker, woken, handleAlive, mockAlive, pc, popped,
                   dir0, alive0, next0, rx0, rbuf0, rbuf, wbuf, fatal, sent, matched, received>>

\* the Mock goes out of scope (the struct has no Drop impl: its fields are
\* released and nothing else happens)
DropMock ==
    /\ Running /\ pc = "idle"
    /\ mockAlive' = FALSE
    /\ UNCHANGED <<next, rx, tx, rx_waker, woken, handleAlive, pc, popped, dir0, alive0, next0, rx0,
                   rbuf0, rbuf, wbuf, ret, fatal, sent, matched, received>>

\* ----------------------------------------------------------------- Handle
Scripting == handleAlive /\ fatal = "none" /\ Len(sent) < MaxActions

\* self.tx.send(action).unwrap(): an unbounded send wakes the receiver's waker
Send(dir, at) ==
    LET a == Action(dir, at, Len(sent) + 1) IN
    IF mockAlive
    THEN /\ rx' = Append(rx, a)
         /\ sent' = Append(sent, a)
         /\ rx_waker' = FALSE
         /\ woken' = (woken \/ rx_waker)
         /\ UNCHANGED fatal
    ELSE /\ fatal' = "action_send_failed"
         /\ UNCHANGED <<rx, sent, rx_waker, woken>>

HandleFrame ==
    UNCHANGED <<next, tx, handleAlive, mockAlive, pc, popped, dir0, alive0, next0, rx0, rbuf0,
                rbuf, wbuf, ret, matched, received>>

\* Handle::read
HandleRead ==
    /\ Scripting
    /\ \E data \in Slices : Send("Read", Data(data))
    /\ HandleFrame

\* Handle::write
HandleWrite ==
    /\ Scripting
    /\ \E data \in Slices : Send("Write", Data(data))
    /\ HandleFrame

\* Handle::read_error
HandleReadError ==
    /\ Scripting
    /\ \E kind \in ErrorKind : Send("Read", Error(kind))
    /\ HandleFrame

\* Handle::write_error
HandleWriteError ==
    /\ Scripting
    /\ \E kind \in ErrorKind : Send("Write", Error(kind))
    /\ HandleFrame

\* fault variant of next_event: the newest event is taken, not the oldest
NextEvent_newest_first ==
    /\ handleAlive /\ fatal = "none"
    /\ IF tx # <<>>
       THEN /\ received' = Append(received, tx[Len(tx)])
            /\ tx' = SubSeq(tx, 1, Len(tx) - 1)
            /\ UNCHANGED fatal
       ELSE /\ ~mockAlive
            /\ fatal' = "event_recv_closed"
            /\ UNCHANGED <<received, tx>>
    /\ UNCHANGED <<next, rx, rx_waker, woken, handleAlive, mockAlive, pc, popped, dir0, alive0, next0,
                   rx0, rbuf0, rbuf, wbuf, ret, sent, matched>>

\* Handle::next_event: self.rx.recv().await.unwrap()
NextEvent ==
    /\ handleAlive /\ fatal = "none"
    /\ IF tx # <<>>
       THEN /\ received' = Append(received, Head(tx))
            /\ tx' = Tail(tx)
            /\ UNCHANGED fatal
       ELSE /\ ~mockAlive
            /\ fatal' = "event_recv_closed"
            /\ UNCHANGED <<received, tx>>
    /\ UNCHANGED <<next, rx, rx_waker, woken, handleAlive, mockAlive, pc, popped, dir0, alive0, next0,
                   rx0, rbuf0, rbuf, wbuf, ret, sent, matched>>

\* the Handle goes out of scope: both of its channel ends close, and closing
\* the action channel wakes the waker left in it
DropHandle ==
    /\ handleAlive /\ fatal = "none"
    /\ handleAlive' = FALSE
    /\ rx_waker' = FALSE
    /\ woken' = (woken \/ rx_waker)
    /\ UNCHANGED <<next, rx, tx, mockAlive, pc, popped, dir0, alive0, next0, rx0,
                   rbuf0, rbuf, wbuf, ret, fatal, sent, matched, received>>

Next ==
    \/ PollReadPop
    \/ PollReadMatch
    \/ PollWritePop
    \/ PollWriteMatch
    \/ PollFlush
    \/ PollShutdown
    \/ DropMock
    \/ HandleRead
    \/ HandleWrite
    \/ HandleReadError
    \/ HandleWriteError
    \/ NextEvent
    \/ DropHandle

Spec == Init /\ [][Next]_vars

\* ----------------------------------------------------------------- claims
IsPrefix(s, t) == Len(s) <= Len(t) /\ \A i \in 1..Len(s) : s[i] = t[i]
OfDirection(s, d) == SelectSeq(s, LAMBDA a : a.direction = d)
\* the panics raised inside poll_read / poll_write
MockPanics ==
    {"unexpected_write", "write_mismatch", "read_capacity", "channel_closed",
     "event_send_failed"}
\* the action pop looked at first when it was last called: the stored one,
\* else the head of the channel
HadFront == next0 # None \/ rx0 # <<>>
Front0 == IF next0 # None THEN next0[1] ELSE Head(rx0)

\* C1: the actions of one direction are matched in the order the Handle sent
\* them: for each direction, the matched actions of that direction are a
\* prefix of the sent actions of that direction.
C1_FifoPerDirection ==
    \A d \in Direction : IsPrefix(OfDirection(matched, d), OfDirection(sent, d))

\* two actions of one direction have been matched
C1_Witness ==
    \E d \in Direction : Len(OfDirection(matched, d)) = 2

C3_Original ==
    (/\ dir0 = "Write" /\ pc = "idle"
     /\ next0 = None /\ Len(rx0) = 1 /\ Head(rx0).direction = "Read")
    => (ret.op = "poll_write" /\ ret.poll = "Pending" /\ fatal \notin MockPanics)

\* C3 amended: a write polled while the only queued action is a Read action
\* stores the Read action in self.next and ends in the "unexpected write"
\* panic: it never suspends, it returns nothing, and the Read action stays
\* in self.next, unmatched.
C3_WriteBehindRead ==
    (/\ dir0 = "Write"
     /\ next0 = None /\ Len(rx0) = 1 /\ Head(rx0).direction = "Read")
    => (/\ next = Some(Head(rx0))
        /\ popped = None
        /\ ret = NoRet
        /\ \A i \in 1..Len(matched) : matched[i].id # Head(rx0).id
        /\ pc = "idle" => fatal = "unexpected_write")

\* the write that found only a Read action has panicked
C3_Witness ==
    /\ dir0 = "Write" /\ pc = "idle" /\ fatal = "unexpected_write"
    /\ next0 = None /\ Len(rx0) = 1 /\ Head(rx0).direction = "Read"
    /\ next = Some(Head(rx0))

\* C4: poll_write never returns Pending: when pop(Write) returned None (it
\* found nothing, or found a Read action) the call ends in the "unexpected
\* write" panic and returns nothing.
C4_WriteNeverPending ==
    /\ ret.op = "poll_write" => ret.poll = "Ready"
    /\ (pc = "poll_write" /\ popped = None)
       => (~HadFront \/ Front0.direction = "Read")
    /\ (/\ dir0 = "Write" /\ pc = "idle" /\ fatal # "channel_closed"
        /\ (~HadFront \/ Front0.direction = "Read"))
       => (fatal = "unexpected_write" /\ ret = NoRet)

\* a write polled with self.next and the channel both empty has panicked
C4_Witness ==
    /\ dir0 = "Write" /\ pc = "idle" /\ fatal = "unexpected_write"
    /\ next0 = None /\ rx0 = <<>>

Emitted == received \o tx
Last(s) == s[Len(s)]
\* the event the documentation of Event gives for an action
ExpectedEvent(a) ==
    CASE a.direction = "Read" /\ a.action_type.tag = "Data" ->
            [tag |-> "Read", len |-> Len(a.action_type.bytes), kind |-> "-"]
      [] a.direction = "Write" /\ a.action_type.tag = "Data" ->
            [tag |-> "Write", len |-> Len(a.action_type.bytes), kind |-> "-"]
      [] a.direction = "Read" /\ a.action_type.tag = "Error" ->
            [tag |-> "ReadErr", len |-> 0, kind |-> a.action_type.kind]
      [] a.direction = "Write" /\ a.action_type.tag = "Error" ->
            [tag |-> "WriteErr", len |-> 0, kind |-> a.action_type.kind]
\* the last call of pop looked at an action of the requested direction and
\* could send its event
Matched0 ==
    HadFront /\ Front0.direction = dir0 /\ fatal # "event_send_failed"
\* no later poll_flush / poll_shutdown has replaced the value returned
LastReturn == pc = "idle" /\ ret.op \notin {"poll_flush", "poll_shutdown"}

C7_EventsInMatchOrder ==
    /\ received \o tx = [i \in 1..Len(matched) |-> ExpectedEvent(matched[i])]
    /\ \A i \in 1..Len(received) : received[i] = ExpectedEvent(matched[i])

\* the Handle has received two different events
C7_Witness ==
    /\ Len(received) = 2
    /\ received[1] # received[2]

\* C8: when poll_write matches a Write data action, it returns Ok(len of the
\* caller's slice), with the event Write(len) sent, if the scripted bytes
\* equal the caller's slice, and panics, returning nothing, if they differ.
C8_WriteData ==
    /\ (pc = "idle" /\ ret.op = "poll_write" /\ ret.res = "Ok")
       => (/\ Matched0 /\ dir0 = "Write"
           /\ Front0.action_type = Data(wbuf)
           /\ ret.poll = "Ready" /\ ret.n = Len(wbuf)
           /\ Last(matched) = Front0
           /\ Last(Emitted) = [tag |-> "Write", len |-> Len(wbuf), kind |-> "-"])
    /\ fatal = "write_mismatch"
       => (/\ Matched0 /\ dir0 = "Write"
           /\ Front0.action_type.tag = "Data"
           /\ Front0.action_type.bytes # wbuf)
    /\ (/\ dir0 = "Write" /\ pc = "idle" /\ Matched0
        /\ Front0.action_type.tag = "Data")
       => IF Front0.action_type.bytes = wbuf
          THEN /\ fatal \notin MockPanics
               /\ LastReturn => ret = Ret("poll_write", "Ready", "Ok", Len(wbuf), "-")
          ELSE fatal = "write_mismatch" /\ ret = NoRet

\* a write of the scripted bytes has returned Ok
C8_Witness ==
    /\ pc = "idle" /\ ret = Ret("poll_write", "Ready", "Ok", Len(wbuf), "-")
    /\ Front0.action_type = Data(wbuf) /\ wbuf # <<>>
    /\ Last(Emitted).tag = "Write"

\* C9: when poll_read / poll_write matches a scripted error of kind K it
\* returns Ready(Err(K)): the caller's ReadBuf is as it was passed, no byte
\* count is returned, the one event sent for the action is ReadErr(K) /
\* WriteErr(K), and there is no panic; an error is returned in no other case.
C9_ScriptedError ==
    /\ (pc = "idle" /\ ret.res = "Err")
       => (/\ Matched0
           /\ Front0.action_type = Error(ret.kind)
           /\ ret.op = (IF dir0 = "Read" THEN "poll_read" ELSE "poll_write")
           /\ ret.poll = "Ready" /\ ret.n = 0
           /\ rbuf = rbuf0
           /\ Last(matched) = Front0
           /\ Cardinality({i \in 1..Len(matched) : matched[i].id = Front0.id}) = 1
           /\ Len(Emitted) = Len(matched)
           /\ Last(Emitted) =
                 [tag |-> (IF dir0 = "Read" THEN "ReadErr" ELSE "WriteErr"),
                  len |-> 0, kind |-> ret.kind]
           /\ fatal \notin MockPanics)
    /\ (/\ dir0 # "-" /\ pc = "idle" /\ Matched0
        /\ Front0.action_type.tag = "Error")
       => (/\ fatal \notin MockPanics
           /\ rbuf = rbuf0
           /\ LastReturn => (ret.res = "Err" /\ ret.kind = Front0.action_type.kind))

\* a read has returned a scripted error after an earlier scripted error was
\* returned: the Mock was still usable
C9_Witness ==
    /\ pc = "idle" /\ ret.op = "poll_read" /\ ret.res = "Err"
    /\ Len(matched) = 2
    /\ matched[1].action_type.tag = "Error"
    /\ Front0.action_type = Error(ret.kind)

\* C10: when poll_read matches a Read data action of length L, it appends all
\* L bytes to the ReadBuf and returns Ok if the ReadBuf has room for L bytes,
\* and panics with the ReadBuf as it was passed if it has not.
C10_ReadData ==
    /\ (pc = "idle" /\ ret.op = "poll_read" /\ ret.res = "Ok")
       => (/\ Matched0 /\ dir0 = "Read"
           /\ Front0.action_type.tag = "Data"
           /\ rbuf0.remaining >= Len(Front0.action_type.bytes))
    /\ fatal = "read_capacity"
       => (/\ Matched0 /\ dir0 = "Read"
           /\ Front0.action_type.tag = "Data"
           /\ rbuf0.remaining < Len(Front0.action_type.bytes))
    /\ (/\ dir0 = "Read" /\ pc = "idle" /\ Matched0
        /\ Front0.action_type.tag = "Data")
       => IF rbuf0.remaining >= Len(Front0.action_type.bytes)
          THEN /\ rbuf.filled = rbuf0.filled \o Front0.action_type.bytes
               /\ rbuf.remaining = rbuf0.remaining - Len(Front0.action_type.bytes)
               /\ fatal \notin MockPanics
               /\ LastReturn => ret = Ret("poll_read", "Ready", "Ok", 0, "-")
          ELSE /\ fatal = "read_capacity"
               /\ rbuf = rbuf0
               /\ ret = NoRet

\* a read of two scripted bytes into a ReadBuf with room for exactly two
C10_Witness ==
    /\ pc = "idle" /\ ret = Ret("poll_read", "Ready", "Ok", 0, "-")
    /\ rbuf0.remaining = 2 /\ rbuf.remaining = 0
    /\ rbuf.filled = rbuf0.filled \o Front0.action_type.bytes
    /\ Len(Front0.action_type.bytes) = 2

\* the action a was matched
WasMatched(a) == \E i \in 1..Len(matched) : matched[i].id = a.id

\* C11 as stated: dropping the Mock while an action is still in the channel
\* or in self.next ends in an "unused scripted action" panic; dropping it with
\* every action consumed does not.
C11_DropUnused ==
    /\ (~mockAlive /\ (next # None \/ rx # <<>>)) => fatal = "unused_action"
    /\ (~mockAlive /\ next = None /\ rx = <<>>) => fatal # "unused_action"

\* C12 as stated: with the Handle dropped, a request that finds self.next and
\* the channel empty panics, and a request that finds an action of its
\* direction, sent before the drop, at the head of the channel is matched
\* with it.
C12_Original ==
    /\ (dir0 # "-" /\ ~alive0 /\ ~HadFront)
       => (fatal = "channel_closed" /\ pc = "idle" /\ ret = NoRet)
    /\ (dir0 # "-" /\ ~alive0 /\ next0 = None /\ HadFront /\ Front0.direction = dir0)
       => (fatal \notin MockPanics /\ WasMatched(Front0))

\* C12 amended: with the Handle dropped, a request that finds self.next and
\* the channel empty panics ("channel closed") instead of returning Pending,
\* and that panic occurs only when everything sent has been matched, in
\* order, before. An action still queued when the Handle was dropped is
\* received before the channel reports its closing, but not delivered to the
\* caller: a request of its direction panics on sending its event (the
\* event channel closed with the Handle), one of the other direction only
\* stores it.
C12_ClosedChannel ==
    /\ (dir0 # "-" /\ ~alive0 /\ ~HadFront)
       => (fatal = "channel_closed" /\ pc = "idle" /\ ret = NoRet)
    /\ fatal = "channel_closed"
       => (dir0 # "-" /\ ~alive0 /\ ~HadFront /\ matched = sent)
    /\ (dir0 # "-" /\ ~alive0 /\ HadFront)
       => IF Front0.direction = dir0
          THEN /\ fatal = "event_send_failed" /\ pc = "idle" /\ ret = NoRet
               /\ ~WasMatched(Front0)
          ELSE /\ next = Some(Front0) /\ popped = None
               /\ fatal \notin {"channel_closed", "event_send_failed"}

\* two actions were matched, the Handle was dropped, and the next request
\* found nothing
C12_Witness ==
    /\ fatal = "channel_closed" /\ ~alive0 /\ ~HadFront
    /\ Len(matched) = 2 /\ matched = sent

\* C13 as stated: whenever poll_read has returned Pending, the task's waker is
\* in the action channel, or the channel has already woken the task: a send
\* (or the closing of the channel) will cause, or has caused, a new poll.
C13_NoMissedWakeup ==
    (pc = "idle" /\ ret.op = "poll_read" /\ ret.poll = "Pending")
    => (rx_waker \/ woken)

\* C14: poll_flush and poll_shutdown can be called in every state in which the
\* Mock can be polled, also with actions queued or the Handle dropped; they
\* return Ready(Ok(())), and the step that returns it changes nothing else:
\* not self.next, the action channel, the event channel or any history.
C14_FlushShutdownNoOp ==
    /\ [](ret.op \in {"poll_flush", "poll_shutdown"}
          => ret = Ret(ret.op, "Ready", "Ok", 0, "-"))
    /\ []((mockAlive /\ pc = "idle" /\ fatal = "none")
          => (ENABLED PollFlush /\ ENABLED PollShutdown))
    /\ [][(ret'.op \in {"poll_flush", "poll_shutdown"} /\ ret' # ret)
          => UNCHANGED <<next, rx, tx, rx_waker, woken, handleAlive, mockAlive,
                         pc, popped, rbuf, wbuf, fatal, sent, matched,
                         received>>]_vars

\* poll_flush has returned with an action stored, another in the channel and
\* the Handle dropped
C14_Witness ==
    /\ ret.op = "poll_flush" /\ ret.res = "Ok"
    /\ next # None /\ rx # <<>> /\ ~handleAlive

\* the last request has returned or panicked, and the action at the front of
\* the mock when it called pop had the request's direction
SameDirFront0 == dir0 # "-" /\ pc = "idle" /\ HadFront /\ Front0.direction = dir0

\* C15 as stated: a returned error is a scripted error action of the request's
\* direction and kind, consumed by that request; a violation is fatal and is
\* never returned; and a request that meets a scripted error of its direction
\* never ends in the fatal state.
C15_Original ==
    /\ ret.res = "Err"
       => /\ SameDirFront0 /\ Front0.action_type = Error(ret.kind)
          /\ ret.op = (IF dir0 = "Read" THEN "poll_read" ELSE "poll_write")
          /\ matched # <<>> /\ Last(matched) = Front0
    /\ fatal \in MockPanics => ret = NoRet
    /\ (SameDirFront0 /\ Front0.action_type.tag = "Error") => fatal \notin MockPanics

\* C15 amended: as above, but a scripted error of the request's direction is
\* returned, and is not fatal, only while the Handle is alive; after the drop of
\* the Handle the request panics when it sends the event. Each violation ends
\* in its own fatal state with nothing returned.
C15_ErrorClasses ==
    /\ ret.res = "Err"
       => /\ SameDirFront0 /\ alive0 /\ Front0.action_type = Error(ret.kind)
          /\ ret.op = (IF dir0 = "Read" THEN "poll_read" ELSE "poll_write")
          /\ matched # <<>> /\ Last(matched) = Front0
          /\ fatal \notin MockPanics
    /\ fatal \in MockPanics => ret = NoRet
    /\ (SameDirFront0 /\ Front0.action_type.tag = "Error")
       => IF alive0
          THEN /\ fatal \notin MockPanics
               /\ LastReturn => (ret.res = "Err" /\ ret.kind = Front0.action_type.kind)
          ELSE fatal = "event_send_failed"
    /\ (dir0 = "Write" /\ pc = "idle" /\ alive0 /\ ~HadFront)
       => fatal = "unexpected_write"
    /\ (dir0 = "Write" /\ pc = "idle" /\ HadFront /\ Front0.direction = "Read")
       => fatal = "unexpected_write"
    /\ (SameDirFront0 /\ alive0 /\ dir0 = "Write" /\ Front0.action_type.tag = "Data"
        /\ Front0.action_type.bytes # wbuf)
       => fatal = "write_mismatch"
    /\ (SameDirFront0 /\ alive0 /\ dir0 = "Read" /\ Front0.action_type.tag = "Data"
        /\ rbuf0.remaining < Len(Front0.action_type.bytes))
       => fatal = "read_capacity"
    /\ (dir0 # "-" /\ ~alive0 /\ ~HadFront) => fatal = "channel_closed"

\* a write has returned the scripted error of a Write action that an earlier
\* read had put into the slot
C15_Witness ==
    /\ ret.op = "poll_write" /\ ret.res = "Err" /\ ret.kind = "BrokenPipe"
    /\ next0 # None /\ Front0.action_type = Error("BrokenPipe") /\ fatal = "none"

\* C16: self.next holds at most one action; a pop that found the slot occupied
\* takes nothing from the action channel; the slot changes only by being
\* emptied, or by being filled, when it was empty, with the head of the
\* channel: a held action is never overwritten.
C16_SlotFirst ==
    /\ Len(next) <= 1
    /\ next0 # None
       => /\ IsPrefix(rx0, rx)
          /\ next \in {None, next0}
    /\ (next0 = None /\ next # None)
       => /\ rx0 # <<>> /\ next = Some(Head(rx0))
          /\ IsPrefix(Tail(rx0), rx)

\* a request found an action of the other direction in the slot while the
\* channel was not empty: the slot is kept and the channel not touched
C16_Witness ==
    /\ dir0 # "-" /\ next0 # None /\ rx0 # <<>>
    /\ next = next0 /\ next0[1].direction # dir0 /\ IsPrefix(rx0, rx)

\* the actions taken out of the mock by a request of their own direction: the
\* matched ones, and the one whose event could not be sent
Consumed == matched \o (IF fatal = "event_send_failed" THEN <<Front0>> ELSE <<>>)

\* the three places an enqueued action can be in
Places == Consumed \o next \o rx

\* C17: every action enqueued is in exactly one of the action channel, the
\* slot and the consumed actions, and nothing else is there; an action leaves
\* the channel only from its head, either consumed by a request of its own
\* direction or, on a direction mismatch, into the empty slot with nothing
\* else changed; an action leaves the slot only to a request of its direction.
C17_NoLossNoDuplicate ==
    /\ [](/\ Len(Places) = Len(sent)
          /\ \A i \in 1..Len(sent) :
                Cardinality({j \in 1..Len(Places) : Places[j] = sent[i]}) = 1)
    /\ [][Len(rx') < Len(rx)
          => /\ rx' = Tail(rx) /\ next = None
             /\ IF Head(rx).direction = dir0'
                THEN next' = None /\ Consumed' = Append(Consumed, Head(rx))
                ELSE next' = Some(Head(rx)) /\ Consumed' = Consumed /\ tx' = tx]_vars
    /\ [][(next # None /\ next' = None)
          => /\ next[1].direction = dir0' /\ rx' = rx
             /\ Consumed' = Append(Consumed, next[1])]_vars

\* both enqueued actions have been through a direction mismatch or a match: one
\* is consumed, the other is in the slot, the channel is empty
C17_Witness ==
    /\ Len(sent) = 2 /\ Len(matched) = 1 /\ next # None /\ rx = <<>>
    /\ matched[1].direction # next[1].direction

\* C18: the matched actions are the first actions enqueued, in enqueue order,
\* whatever their directions; the events emitted are get_event of exactly
\* those actions in that order; every action not yet consumed was enqueued
\* after every consumed one, the stored one before those in the channel.
C18_GlobalOrder ==
    /\ IsPrefix(matched, sent)
    /\ Emitted = [i \in 1..Len(matched) |-> get_event(sent[i])]
    /\ sent = Places

\* a Write action and then a Read action have been matched, and their two
\* events emitted in that order
C18_Witness ==
    /\ Len(matched) = 2
    /\ matched[1].direction = "Write" /\ matched[2].direction = "Read"
    /\ Len(Emitted) = 2 /\ Emitted[1].tag \in {"Write", "WriteErr"}

\* the event of the action at the front has been emitted last, and the action
\* is consumed: the last one matched, neither stored nor in the channel
FrontEmittedAndConsumed ==
    /\ Emitted # <<>> /\ Last(Emitted) = get_event(Front0)
    /\ matched # <<>> /\ Last(matched) = Front0
    /\ next # Some(Front0)
    /\ \A i \in 1..Len(rx) : rx[i] # Front0

\* C19: when pop has returned an action and poll_read / poll_write has not yet
\* looked at its payload, the action's event is already emitted and the action
\* already consumed; a write whose bytes differ from the scripted ones, and a
\* read whose buffer is too small for the scripted bytes, end in the panic
\* with the Write(len) / Read(len) event emitted and the action consumed.
C19_EventBeforeCheck ==
    /\ (pc \in {"poll_read", "poll_write"} /\ popped # None)
       => (FrontEmittedAndConsumed /\ fatal = "none")
    /\ fatal \in {"write_mismatch", "read_capacity"}
       => /\ FrontEmittedAndConsumed
          /\ Last(Emitted) = Event(dir0, Len(Front0.action_type.bytes), "-")
    /\ (SameDirFront0 /\ alive0 /\ Front0.action_type.tag = "Data"
        /\ IF dir0 = "Write"
           THEN Front0.action_type.bytes # wbuf
           ELSE rbuf0.remaining < Len(Front0.action_type.bytes))
       => fatal = (IF dir0 = "Write" THEN "write_mismatch" ELSE "read_capacity")

\* a read into a buffer with room for one byte met a scripted read of two
\* bytes: the panic is raised with Read(2) as the newest event in the channel
C19_Witness ==
    /\ fatal = "read_capacity" /\ rbuf0.remaining = 1
    /\ tx # <<>> /\ Last(tx) = Event("Read", 2, "-")
    /\ next = None

\* a Write action is stored in self.next
WriteStored == next # None /\ next[1].direction = "Write"

\* C20: the call of pop of a poll_read that is going to return Pending sends
\* no event and matches no action, and changes slot and channel not at all or
\* by moving the channel's head, a Write action, into the empty slot; the
\* return of Pending changes neither slot, channels nor the caller's buffer,
\* which is as it was passed in. With a Write action stored, a poll_read,
\* whatever is in the channel, does not panic, gets nothing from pop and
\* leaves slot, both channels and the channel's waker unchanged, and returns
\* Pending; a poll_write then takes the stored action.
C20_PendingReadFrame ==
    /\ [][(pc = "idle" /\ pc' = "poll_read" /\ popped' = None)
          => /\ UNCHANGED <<tx, matched, received, sent>>
             /\ rbuf' = rbuf0'
             /\ \/ UNCHANGED <<next, rx>>
                \/ /\ next = None /\ rx # <<>> /\ Head(rx).direction = "Write"
                   /\ next' = Some(Head(rx)) /\ rx' = Tail(rx)]_vars
    /\ [][(pc = "poll_read" /\ pc' = "idle" /\ popped = None)
          => /\ ret' = Ret("poll_read", "Pending", "-", 0, "-")
             /\ fatal' = "none"
             /\ UNCHANGED <<next, rx, tx, rx_waker, matched, received, sent, rbuf>>]_vars
    /\ [][(pc = "poll_read" /\ ret'.poll = "Pending")
          => (popped = None /\ rbuf' = rbuf0)]_vars
    /\ [][(WriteStored /\ pc = "idle" /\ dir0' = "Read"
           /\ (pc' = "poll_read" \/ (fatal' # fatal /\ fatal' \in MockPanics)))
          => /\ pc' = "poll_read" /\ popped' = None /\ fatal' = fatal
             /\ UNCHANGED <<next, rx, tx, rx_waker, matched, received, sent>>]_vars
    /\ [][(WriteStored /\ pc = "idle" /\ pc' = "poll_write")
          => (next' = None /\ popped' = Some(next[1].action_type))]_vars
    /\ []((pc = "idle" /\ ret.op = "poll_read" /\ ret.poll = "Pending")
          => /\ rbuf = rbuf0 /\ dir0 = "Read"
             /\ next0 # None => (next = next0 /\ WriteStored))

\* a second poll_read has returned Pending with the Write action still stored
\* and a Read action, enqueued after the first one, at the head of the channel
C20_Witness ==
    /\ pc = "idle" /\ ret.op = "poll_read" /\ ret.poll = "Pending"
    /\ next0 # None /\ WriteStored
    /\ rx0 # <<>> /\ rx = rx0 /\ Head(rx).direction = "Read"

====
